---- MODULE Spec2Model ----
(***************************************************************************)
(* Second Lowest Cost Silver Plan (SLCSP) lookup, src/main.py.             *)
(*                                                                         *)
(* A data frame is a sequence of records (its rows, in row order); a       *)
(* column is a record field.  The columns county_code, name and plan_id    *)
(* are never read before line 33 drops them, so a row carries only the     *)
(* columns the program reads: zips rows that differ only in county_code or *)
(* name, and plan rows that differ only in plan_id, are repeated rows.     *)
(* Rates are whole currency units; NaN is the missing-value marker.        *)
(***************************************************************************)
EXTENDS Integers, Sequences, FiniteSets, TLC

\* ---------------------------------------------------------------- bounds
MaxZipRows == 3
MaxPlanRows == 3
MaxTargetRows == 2

\* --------------------------------------------------------- input domains
\* np.nan, the missing-value marker of a rate column; real rates are >= 0.
NaN == -1

KnownZips == {11111, 22222}
\* 44444 is requested but never listed in the zips file.
TargetZips == KnownZips \cup {44444}
RatingAreas == {<<"NY", 1>>, <<"NY", 2>>}

\* A row of zips.csv: zipcode, state, rate_area (county_code and name left
\* out): 11111 may lie in NY 1 and in NY 2, 22222 in NY 1.
ZipRows ==
    {[zipcode |-> 11111, state |-> a[1], rate_area |-> a[2]] : a \in RatingAreas}
    \cup {[zipcode |-> 22222, state |-> "NY", rate_area |-> 1]}

\* A row of plans.csv: state, metal_level, rate, rate_area (plan_id left out):
\* three Silver rates in NY 1, two in NY 2, and a Gold plan in NY 1.
PlanRows ==
    {[state |-> "NY", rate_area |-> 1, metal_level |-> "Silver", rate |-> r] :
        r \in {150, 180, 200}}
    \cup {[state |-> "NY", rate_area |-> 2, metal_level |-> "Silver", rate |-> r] :
        r \in {150, 200}}
    \cup {[state |-> "NY", rate_area |-> 1, metal_level |-> "Gold", rate |-> 150]}

\* A row of the requested list: zipcode and the incoming rate column.
TargetRows == [zipcode : TargetZips, rate : {NaN, 999}]

SeqsUpTo(S, n) == UNION {[1..k -> S] : k \in 0..n}

ZipTables == SeqsUpTo(ZipRows, MaxZipRows)
PlanTables == SeqsUpTo(PlanRows, MaxPlanRows)
TargetTables == SeqsUpTo(TargetRows, MaxTargetRows)

\* ------------------------------------------------- data-frame primitives
\* A data frame made of the given rows: the explicit sequence of them.
Frame(rows) == rows \o <<>>

\* The rows of df at the positions in S, in row order (boolean indexing).
RowsAt(df, S) ==
    LET kept[i \in 0..Len(df)] ==
            IF i = 0 THEN <<>>
            ELSE IF i \in S THEN Append(kept[i - 1], df[i]) ELSE kept[i - 1]
    IN  kept[Len(df)]

\* state + ' ' + rate_area.astype(str)
RateAreaKey(state, rate_area) == state \o " " \o ToString(rate_area)

\* Lines 21-22: the composite rate_area column of zips_df, state dropped.
CombineZips(zips) ==
    Frame([i \in 1..Len(zips) |->
        [zipcode |-> zips[i].zipcode,
         rate_area |-> RateAreaKey(zips[i].state, zips[i].rate_area)]])

\* Lines 24-25: the composite rate_area column of plans_df, state dropped.
CombinePlans(plans) ==
    Frame([i \in 1..Len(plans) |->
        [rate_area |-> RateAreaKey(plans[i].state, plans[i].rate_area),
         metal_level |-> plans[i].metal_level,
         rate |-> plans[i].rate]])

\* Line 28: pd.merge(zips_df, plans_df, on='rate_area'), an inner join.  The
\* rows follow the left rows' order, then the right rows' order; the result
\* gets a fresh RangeIndex 0..n-1, kept here in the field index.
MergeOnRateArea(left, right) ==
    LET Matched(i) ==
            LET m == SelectSeq(right, LAMBDA p : p.rate_area = left[i].rate_area)
            IN  [j \in 1..Len(m) |->
                    [zipcode |-> left[i].zipcode,
                     rate_area |-> left[i].rate_area,
                     metal_level |-> m[j].metal_level,
                     rate |-> m[j].rate]]
        joined[i \in 0..Len(left)] ==
            IF i = 0 THEN <<>> ELSE joined[i - 1] \o Matched(i)
        rows == joined[Len(left)]
    IN  Frame([k \in 1..Len(rows) |->
            [index |-> k - 1,
             zipcode |-> rows[k].zipcode,
             rate_area |-> rows[k].rate_area,
             metal_level |-> rows[k].metal_level,
             rate |-> rows[k].rate]])

\* Line 31 without its filter: plans of every metal level stay.
FilterSilver_AnyMetal(df) == df

\* Line 31: zip_plans_df[zip_plans_df['metal_level'] == 'Silver'].
FilterSilver(df) ==
    RowsAt(df, {i \in 1..Len(df) : df[i].metal_level = "Silver"})

\* Line 33: drop(['name', 'plan_id', 'metal_level', 'county_code'], axis=1).
DropPlanColumns(df) ==
    Frame([i \in 1..Len(df) |->
        [index |-> df[i].index, zipcode |-> df[i].zipcode,
         rate_area |-> df[i].rate_area, rate |-> df[i].rate]])

\* Line 40 left out: repeated (zipcode, rate_area, rate) rows stay.
DropDuplicateTriples_None(df) == df

\* Line 40: drop_duplicates(subset=['zipcode', 'rate_area', 'rate']); the
\* first row of every run of equal triples is kept.
DropDuplicateTriples(df) ==
    RowsAt(df, {i \in 1..Len(df) :
        \A j \in 1..(i - 1) :
            <<df[j].zipcode, df[j].rate_area, df[j].rate>>
                # <<df[i].zipcode, df[i].rate_area, df[i].rate>>})

\* Line 41 without the groupby: the distinct rating areas of the whole frame.
UniqueAreaCount_Whole(df, i) ==
    Cardinality({df[j].rate_area : j \in 1..Len(df)})

\* Line 41: groupby('zipcode')['rate_area'].transform('nunique').
UniqueAreaCount(df, i) ==
    Cardinality({df[j].rate_area : j \in {k \in 1..Len(df) : df[k].zipcode = df[i].zipcode}})

\* Line 42: groupby('zipcode')['rate'].transform('nunique').
UniqueRateCount(df, i) ==
    Cardinality({df[j].rate : j \in {k \in 1..Len(df) : df[k].zipcode = df[i].zipcode}})

\* Lines 41-42: the two count columns added to silver_rates_df.
WithCounts(df) ==
    Frame([i \in 1..Len(df) |->
        [index |-> df[i].index, zipcode |-> df[i].zipcode,
         rate_area |-> df[i].rate_area, rate |-> df[i].rate,
         unique_area_count |-> UniqueAreaCount(df, i),
         unique_rate_count |-> UniqueRateCount(df, i)]])

\* Lines 17-42: silver_rates_df as it stands after line 42.
SilverRatesFrame(zips, plans) ==
    WithCounts(DropDuplicateTriples(DropPlanColumns(FilterSilver(
        MergeOnRateArea(CombineZips(zips), CombinePlans(plans))))))

\* ------------------------------------------------------------- selector
\* Lines 46-47: the rows whose zip code spans several rating areas or has a
\* single distinct rate.
UndeterminedRows(df) ==
    RowsAt(df, {i \in 1..Len(df) :
        df[i].unique_area_count > 1 \/ df[i].unique_rate_count = 1})

\* Lines 48-49 without drop_duplicates(subset=['zipcode']).
NoLowest_NoDedup(df) ==
    LET u == UndeterminedRows(df)
    IN  Frame([i \in 1..Len(u) |->
            [index |-> u[i].index, zipcode |-> u[i].zipcode, rate |-> NaN,
             unique_area_count |-> u[i].unique_area_count,
             unique_rate_count |-> u[i].unique_rate_count]])

\* Lines 48-49: drop_duplicates(subset=['zipcode']) keeps the first row of
\* every zip code, rate_area is dropped and rate is overwritten with np.nan.
NoLowest(df) ==
    LET u == UndeterminedRows(df)
        first == RowsAt(u, {i \in 1..Len(u) :
                     \A j \in 1..(i - 1) : u[j].zipcode # u[i].zipcode})
    IN  Frame([i \in 1..Len(first) |->
            [index |-> first[i].index, zipcode |-> first[i].zipcode, rate |-> NaN,
             unique_area_count |-> first[i].unique_area_count,
             unique_rate_count |-> first[i].unique_rate_count]])

\* Line 52 without the test on unique_rate_count.
DeterminableRows_AnyRateCount(df) ==
    RowsAt(df, {i \in 1..Len(df) : df[i].unique_area_count = 1})

\* Line 52: the rows whose zip code has one rating area and several rates.
DeterminableRows(df) ==
    RowsAt(df, {i \in 1..Len(df) :
        df[i].unique_area_count = 1 /\ df[i].unique_rate_count > 1})

\* Line 53: groupby('zipcode')['rate'].nsmallest(2).  Groups come in
\* ascending zipcode order; in a group the two smallest rates ascending, equal
\* rates in row order (keep='first').  The series is indexed by
\* (zipcode, index label of the row), rendered as the fields zipcode, level_1.
NSmallest2(df) ==
    LET Before(i, j) == df[i].rate < df[j].rate \/ (df[i].rate = df[j].rate /\ i < j)
        Taken == {i \in 1..Len(df) :
                     Cardinality({j \in 1..Len(df) :
                         df[j].zipcode = df[i].zipcode /\ Before(j, i)}) < 2}
        place == [i \in Taken |-> Cardinality({j \in Taken :
                       \/ df[j].zipcode < df[i].zipcode
                       \/ (df[j].zipcode = df[i].zipcode /\ (j = i \/ Before(j, i)))})]
    IN  Frame([k \in 1..Cardinality(Taken) |->
            LET i == CHOOSE j \in Taken : place[j] = k
            IN  [zipcode |-> df[i].zipcode, level_1 |-> df[i].index, rate |-> df[i].rate]])

\* Line 54 with keep='first': the first of the rows taken for every zip code.
KeepFirstPerZip(ns) ==
    LET first == RowsAt(ns, {i \in 1..Len(ns) :
                     \A j \in 1..(i - 1) : ns[j].zipcode # ns[i].zipcode})
    IN  Frame([i \in 1..Len(first) |-> [zipcode |-> first[i].zipcode, rate |-> first[i].rate]])

\* Line 54: reset_index().drop('level_1', 1).drop_duplicates(subset=['zipcode'],
\* keep='last'): the last of the rows taken for every zip code.
KeepLastPerZip(ns) ==
    LET last == RowsAt(ns, {i \in 1..Len(ns) :
                    \A j \in (i + 1)..Len(ns) : ns[j].zipcode # ns[i].zipcode})
    IN  Frame([i \in 1..Len(last) |-> [zipcode |-> last[i].zipcode, rate |-> last[i].rate]])

\* Lines 55-56: pd.concat([second_lowest_df, no_lowest_df]) and the drop of
\* the two count columns; the columns left are zipcode and rate.
ConcatAndDropCounts(second, none) ==
    second \o [i \in 1..Len(none) |-> [zipcode |-> none[i].zipcode, rate |-> none[i].rate]]

\* Line 54, drop('level_1', 1), read with the pandas 1.x the positional axis
\* argument is valid for: over an empty selection groupby(...).nsmallest(2)
\* returns an empty series indexed by zipcode alone, reset_index() then makes
\* no level_1 column and the drop raises KeyError.
Level1Missing(determinable) == Len(determinable) = 0

\* Lines 17-59: find_slcsp.  raised tells whether the call ended in an
\* exception, silver is silver_rates_df as line 42 left it, returned is the
\* frame of line 59.
find_slcsp(zips, plans) ==
    LET silver == SilverRatesFrame(zips, plans)
        determinable == DeterminableRows(silver)
    IN  IF Level1Missing(determinable)
        THEN [raised |-> TRUE, silver |-> silver, returned |-> <<>>]
        ELSE [raised |-> FALSE, silver |-> silver,
              returned |-> ConcatAndDropCounts(KeepLastPerZip(NSmallest2(determinable)),
                                               NoLowest(silver))]

\* Line 71 without the drop: the incoming rate column stays.
DropRate_Kept(target) == target

\* Line 71: pd.read_csv(args['slcsp_file']).drop('rate', axis=1).
DropRate(target) == Frame([i \in 1..Len(target) |-> [zipcode |-> target[i].zipcode]])

\* Line 73 with how='inner': a left row without a match is dropped.
MergeInnerOnZipcode(left, right) ==
    LET Slots == {p \in (1..Len(left)) \X (1..Len(right)) :
                     right[p[2]].zipcode = left[p[1]].zipcode}
        place == [p \in Slots |-> Cardinality({q \in Slots :
                       q[1] < p[1] \/ (q[1] = p[1] /\ q[2] <= p[2])})]
    IN  Frame([k \in 1..Cardinality(Slots) |->
            LET p == CHOOSE q \in Slots : place[q] = k
            IN  [zipcode |-> left[p[1]].zipcode, rate |-> right[p[2]].rate]])

\* Line 73: pd.merge(slcsp_df, second_lowest_data, on='zipcode', how='left').
\* Every left row, in order, once per matching right row (in right order), or
\* once with a missing rate when no right row matches.  A rate column on both
\* sides would come out as rate_x and rate_y.
MergeLeftOnZipcode(left, right) ==
    LET Matches(i) == {j \in 1..Len(right) : right[j].zipcode = left[i].zipcode}
        Slots == {p \in (1..Len(left)) \X (0..Len(right)) :
                     IF Matches(p[1]) = {} THEN p[2] = 0 ELSE p[2] \in Matches(p[1])}
        place == [p \in Slots |-> Cardinality({q \in Slots :
                       q[1] < p[1] \/ (q[1] = p[1] /\ q[2] <= p[2])})]
        RightRate(p) == IF p[2] = 0 THEN NaN ELSE right[p[2]].rate
    IN  Frame([k \in 1..Cardinality(Slots) |->
            LET p == CHOOSE q \in Slots : place[q] = k
            IN  IF "rate" \in DOMAIN left[p[1]]
                THEN [zipcode |-> left[p[1]].zipcode,
                      rate_x |-> left[p[1]].rate, rate_y |-> RightRate(p)]
                ELSE [zipcode |-> left[p[1]].zipcode, rate |-> RightRate(p)]])

\* ----------------------------------------------------------- the program
VARIABLES
    pc,                 \* position in output_slcsp
    zips_df,            \* find_slcsp: rows read from the zips file (line 17)
    plans_df,           \* find_slcsp: rows read from the plans file (line 18)
    silver_rates_df,    \* find_slcsp: the annotated Silver relation (line 42)
    second_lowest_data, \* output_slcsp: the frame find_slcsp returned (line 70)
    slcsp_file,         \* rows of the requested list as read (line 71)
    slcsp_df,           \* output_slcsp: the requested list without rate (line 71)
    slcsp               \* output_slcsp: the table printed (line 73)

vars == <<pc, zips_df, plans_df, silver_rates_df, second_lowest_data,
          slcsp_file, slcsp_df, slcsp>>

\* output_slcsp is entered with the two data files fixed; find_slcsp has read
\* them (lines 17-18) and nothing else has run.
Init ==
    /\ pc = "find_slcsp"
    /\ zips_df \in ZipTables
    /\ plans_df \in PlanTables
    /\ silver_rates_df = <<>>
    /\ second_lowest_data = <<>>
    /\ slcsp_file = <<>>
    /\ slcsp_df = <<>>
    /\ slcsp = <<>>

\* Lines 20-59: the body of find_slcsp up to its return statement; an
\* exception ends the program.
FindSlcsp ==
    /\ pc = "find_slcsp"
    /\ \E r \in {find_slcsp(zips_df, plans_df)} :
           /\ pc' = IF r.raised THEN "raised" ELSE "return"
           /\ silver_rates_df' = r.silver
           /\ second_lowest_data' = r.returned
    /\ UNCHANGED <<zips_df, plans_df, slcsp_file, slcsp_df, slcsp>>

\* Lines 59 and 70: find_slcsp returns; its local frames go out of scope and
\* only the returned frame is left to output_slcsp.
ReturnData ==
    /\ pc = "return"
    /\ zips_df' = <<>>
    /\ plans_df' = <<>>
    /\ silver_rates_df' = <<>>
    /\ pc' = "read_target"
    /\ UNCHANGED <<second_lowest_data, slcsp_file, slcsp_df, slcsp>>

\* Line 71: the requested list is read and loses its rate column.
ReadTarget ==
    /\ pc = "read_target"
    /\ \E target \in TargetTables :
        /\ slcsp_file' = target
        /\ slcsp_df' = DropRate(target)
    /\ pc' = "merge"
    /\ UNCHANGED <<zips_df, plans_df, silver_rates_df, second_lowest_data, slcsp>>

\* Line 73: the left join onto the requested list (line 76 prints it).
MergeTarget ==
    /\ pc = "merge"
    /\ slcsp' = MergeLeftOnZipcode(slcsp_df, second_lowest_data)
    /\ pc' = "done"
    /\ UNCHANGED <<zips_df, plans_df, silver_rates_df, second_lowest_data,
                   slcsp_file, slcsp_df>>

Next == FindSlcsp \/ ReturnData \/ ReadTarget \/ MergeTarget

Spec == Init /\ [][Next]_vars

\* ------------------------------------------------- reference definitions
\* What the claims speak of, read off the input files as sets, without any of
\* the frame operations above.
Range(f) == {f[i] : i \in DOMAIN f}

\* The rating areas the zips file links zip code z to.
AreasOf(z) == {<<r.state, r.rate_area>> : r \in {q \in Range(zips_df) : q.zipcode = z}}

\* The distinct Silver rates of rating area a in the plans file.
SilverRatesIn(a) ==
    {p.rate : p \in {q \in Range(plans_df) :
        q.metal_level = "Silver" /\ <<q.state, q.rate_area>> = a}}

\* The rating areas of z that have a Silver plan.
SilverAreasOf(z) == {a \in AreasOf(z) : SilverRatesIn(a) # {}}

\* The distinct Silver rates reached from z.
CandidateRates(z) == UNION {SilverRatesIn(a) : a \in SilverAreasOf(z)}

SecondSmallest(S) == CHOOSE r \in S : Cardinality({q \in S : q < r}) = 1

\* The rate cells the left join of line 73 prints for a requested zip code z,
\* given the frame find_slcsp returned.
RatesPrinted(z, returned) ==
    {row.rate : row \in Range(MergeLeftOnZipcode(<<[zipcode |-> z]>>, returned))}

OutputRates(z) == RatesPrinted(z, second_lowest_data)

AtReturn == pc = "return"
AfterFind == pc \in {"return", "raised"}

\* --------------------------------------------------------------- claims
\* C1: a requested zip code linked to exactly one rating area that has at
\* least two distinct Silver rates is printed with the second-smallest
\* distinct Silver rate of that area, whatever the order of the rows and
\* however many plan rows repeat a rate (the lowest included).
C1_SecondLowest ==
    AfterFind =>
        \A z \in TargetZips : \A a \in AreasOf(z) :
            (AreasOf(z) = {a} /\ Cardinality(SilverRatesIn(a)) >= 2)
                => AtReturn /\ OutputRates(z) = {SecondSmallest(SilverRatesIn(a))}

\* The lowest rate is carried by two plan rows, as in 150, 150, 200.
C1_Witness ==
    /\ AtReturn
    /\ \E z \in KnownZips : \E a \in AreasOf(z) :
        /\ AreasOf(z) = {a}
        /\ Cardinality(SilverRatesIn(a)) >= 2
        /\ \E i, j \in 1..Len(plans_df) :
            /\ i < j
            /\ plans_df[i] = plans_df[j]
            /\ plans_df[i].metal_level = "Silver"
            /\ <<plans_df[i].state, plans_df[i].rate_area>> = a
            /\ \A r \in SilverRatesIn(a) : plans_df[i].rate <= r
        /\ OutputRates(z) = {SecondSmallest(SilverRatesIn(a))}

\* C2 (as claimed): a requested zip code the zips file links to two or more
\* distinct rating areas is printed with an undefined rate, whichever of those
\* areas have Silver plans.
C2_MultiAreaUndefined ==
    AtReturn =>
        \A z \in TargetZips :
            Cardinality(AreasOf(z)) >= 2 => OutputRates(z) = {NaN}

C5_OrderPreserved ==
    pc = "done" =>
        /\ Len(slcsp) = Len(slcsp_file)
        /\ \A i \in 1..Len(slcsp_file) : slcsp[i].zipcode = slcsp_file[i].zipcode

\* A requested list that repeats a zip code find_slcsp returned a row for.
C5_Witness ==
    /\ pc = "done"
    /\ Len(slcsp_file) = 2
    /\ slcsp_file[1].zipcode = slcsp_file[2].zipcode
    /\ \E i \in 1..Len(second_lowest_data) :
        second_lowest_data[i].zipcode = slcsp_file[1].zipcode
    /\ Len(slcsp) = 2

\* C6 (as claimed): a zip code with no Silver candidate has no row in the
\* frame find_slcsp returns and is printed with an undefined rate, and the
\* transform never ends in an error.
C6_NoErrorOutcome ==
    /\ pc # "raised"
    /\ AtReturn =>
        \A z \in TargetZips :
            SilverAreasOf(z) = {} =>
                /\ \A i \in 1..Len(second_lowest_data) : second_lowest_data[i].zipcode # z
                /\ OutputRates(z) = {NaN}

\* C7: the printed table does not depend on the incoming rate column: every
\* requested list with the same zip codes in the same order gives this table.
C7_IncomingRateIgnored ==
    pc = "done" =>
        \A other \in TargetTables :
            (/\ Len(other) = Len(slcsp_file)
             /\ \A i \in 1..Len(other) : other[i].zipcode = slcsp_file[i].zipcode)
                => MergeLeftOnZipcode(DropRate(other), second_lowest_data) = slcsp

\* A requested row that came with a rate and is printed with another one.
C7_Witness ==
    /\ pc = "done"
    /\ \E i \in 1..Len(slcsp_file) :
        /\ slcsp_file[i].rate # NaN
        /\ i <= Len(slcsp)
        /\ slcsp[i] = [zipcode |-> slcsp_file[i].zipcode, rate |-> NaN]
    /\ \E i \in 1..Len(slcsp_file) :
        /\ slcsp_file[i].rate = NaN
        /\ i <= Len(slcsp)
        /\ "rate" \in DOMAIN slcsp[i]
        /\ slcsp[i].rate # NaN

\* The zip codes of the undetermined and of the determinable group, read off
\* the count columns of silver_rates_df.
UndeterminedZips ==
    {r.zipcode : r \in {q \in Range(silver_rates_df) :
        q.unique_area_count > 1 \/ q.unique_rate_count = 1}}

DeterminableZips ==
    {r.zipcode : r \in {q \in Range(silver_rates_df) :
        q.unique_area_count = 1 /\ q.unique_rate_count > 1}}

\* C8: the undetermined and the determinable group are disjoint, together
\* hold every zip code of the deduplicated Silver relation, and the frame
\* returned has exactly one row for each of these zip codes and no other row.
C8_Partition ==
    AtReturn =>
        /\ UndeterminedZips \cap DeterminableZips = {}
        /\ UndeterminedZips \cup DeterminableZips
               = {r.zipcode : r \in Range(silver_rates_df)}
        /\ \A z \in UndeterminedZips \cup DeterminableZips :
               Cardinality({i \in 1..Len(second_lowest_data) :
                   second_lowest_data[i].zipcode = z}) = 1
        /\ \A i \in 1..Len(second_lowest_data) :
               second_lowest_data[i].zipcode \in UndeterminedZips \cup DeterminableZips
        /\ \A z \in UndeterminedZips : OutputRates(z) = {NaN}
        /\ \A z \in DeterminableZips : NaN \notin OutputRates(z)

\* Both groups hold a zip code.
C8_Witness ==
    /\ AtReturn
    /\ UndeterminedZips # {}
    /\ DeterminableZips # {}
    /\ Len(second_lowest_data) = 2

\* C9: the rows of a determinable zip code carry pairwise distinct rates after
\* line 40, the rows nsmallest(2) takes for it differ in rate, and the rate
\* kept for it is strictly greater than the lowest Silver rate of its area.
C9_DistinctRates ==
    AtReturn =>
        LET taken == NSmallest2(DeterminableRows(silver_rates_df))
            RowsOf(df, z) == {i \in 1..Len(df) : df[i].zipcode = z}
            RatesOf(df, z) == {df[i].rate : i \in RowsOf(df, z)}
        IN  \A z \in DeterminableZips :
                /\ Cardinality(RatesOf(silver_rates_df, z))
                       = Cardinality(RowsOf(silver_rates_df, z))
                /\ Cardinality(RowsOf(taken, z)) = 2
                /\ Cardinality(RatesOf(taken, z)) = 2
                /\ \A i \in RowsOf(second_lowest_data, z) :
                       \E r \in CandidateRates(z) : r < second_lowest_data[i].rate

\* A determinable zip code whose lowest Silver rate comes on two joined rows.
C9_Witness ==
    /\ AtReturn
    /\ \E z \in DeterminableZips :
        \E i, j \in 1..Len(plans_df) :
            /\ i < j
            /\ plans_df[i] = plans_df[j]
            /\ plans_df[i].metal_level = "Silver"
            /\ <<plans_df[i].state, plans_df[i].rate_area>> \in AreasOf(z)
            /\ \A r \in CandidateRates(z) : plans_df[i].rate <= r

\* The zips rows of z alone, and the Silver plan rows of the areas z links to.
OwnLinks(z) == SelectSeq(zips_df, LAMBDA r : r.zipcode = z)

OwnSilverPlans(z) ==
    SelectSeq(plans_df, LAMBDA p :
        p.metal_level = "Silver" /\ <<p.state, p.rate_area>> \in AreasOf(z))

\* The defined rate a run prints for z, if any (none when the run raised).
DefinedRates(z, run) ==
    IF run.raised THEN {} ELSE RatesPrinted(z, run.returned) \ {NaN}

====
